---- MODULE Spec2Model ----
(***************************************************************************)
(* Model of the AMQP access layer of tritonmedia/core (the AMQP class):    *)
(* sharded round-robin publishing, the publisher/consumer mode guard,      *)
(* topology provisioning and the consumer acknowledgment protocol.         *)
(*                                                                         *)
(* An async function is a process that is suspended at every await; the    *)
(* synchronous stretch between two awaits is one action.                   *)
(***************************************************************************)
EXTENDS Integers, Sequences, FiniteSets, TLC

(* ------------------------------ bounds --------------------------------- *)

\* largest numConsumerQueues the model instantiates
MaxN == 2
\* number of publish calls made on the instance
MaxCalls == 3
\* number of publish calls the caller leaves unawaited at a time
MaxInFlight == 2
\* number of listen calls made on the instance
MaxListens == 1
\* number of channels the connection hands out
MaxChan == 2
\* number of times the connection manager re-runs a channel's setup
MaxReconnects == 1
\* number of messages the broker delivers to the consumer
MaxMsgs == 2
\* number of times a handler may call ack/nack on one envelope
MaxTerm == 2
\* largest prefetch limit the model instantiates
MaxPrefetch == 2
\* number of connect() calls made on the instance
MaxConnects == 1
\* number of connect/disconnect events the connections emit
MaxEvents == 3
\* number of cancel() calls made on the instance
MaxCancels == 1
\* number of Storage.new calls made
MaxNews == 2
\* number of emitStatus/emitProgress calls made
MaxEmits == 2
\* number of events the object listing stream emits
MaxStreamEvents == 4

Topics == {"a", "b"}
Calls == 1..MaxCalls
Listens == 1..MaxListens
Chans == 1..MaxChan
Msgs == 1..MaxMsgs
Conns == 1..MaxConnects
News == 1..MaxNews
Emits == 1..MaxEmits
\* the (metadata, metadata_id) pairs media are created for
Pairs == {"p", "q"}

\* what Map.get returns for a topic that was never published to
Undefined == -1
\* this.pchannel = null
Null == 0
\* constructor (host, prefetch = 1000, ...)
DefaultPrefetch == 1000
\* media status QUEUED
Queued == 0
\* a media status other than QUEUED
Busy == 1
\* an argument the caller left out
Missing == "undefined"
\* the arguments a caller may pass or leave out
Args == {"given", Missing}
\* no payload: an emit call that has built or returned none
NoPayload == [id |-> 0, mediaId |-> Missing, status |-> Missing, progress |-> Missing]
\* the mediaId, status and progress arguments a caller of emitStatus and
\* emitProgress may pass or leave out; "1.5" is a status no protobuf accepts
MediaArgs == {"m1", Missing}
StatusArgs == {"0", "1.5", Missing}
ProgressArgs == {"50", Missing}
\* object names and prefixes are sequences of path segments and "/"; the
\* empty name is an entry without a name (a directory)
ObjNames == {<<>>, <<"x">>, <<"a", "/", "x">>, <<"a", "/", "b", "/", "x">>}
\* the prefix arguments a caller of getObjects may pass ('' is the default)
PrefixArgs == {<<>>, <<"a">>, <<"a", "/">>}
\* this.numConsumerQueues = 2 in the AMQP class the telemetry library loads
FixedConsumerQueues == 2

\* the (queue, exchange) label pairs: queue = "<topic>-<index>"
Labels == Topics \X (0..MaxN)

VARIABLES
  N,            \* this.numConsumerQueues
  prefetch,     \* this.prefetch
  mode,         \* this.mode
  topicState,   \* this._topicState : topic -> next shard index
  pchannel,     \* this.pchannel
  nchan,        \* channels created so far by connection.createChannel
  chKind,       \* channel -> "none" | "pub" | "listen"
  chTopic,      \* channel -> topic its setup closure captured
  setupPos,     \* channel -> number of setup steps the current run completed
  setupState,   \* channel -> "idle" | "running" | "resolved" | "rejected"
  runs,         \* channel -> number of setup runs started
  pc,           \* publish call -> position
  ctopic,       \* publish call -> topic argument
  rkIndex,      \* publish call -> local rkIndex
  cchan,        \* publish call -> local channel
  cok,          \* publish call -> whether channel.publish resolved
  published,    \* metrics.messages_published, per label pair
  errored,      \* metrics.messages_published_errored, per label pair
  sent,         \* the channel.publish requests, in order
  exchanges,    \* broker: exchanges that exist (topic -> type)
  queues,       \* broker: queues that exist
  bindings,     \* broker: bindings queue -> exchange that exist
  setupErrs,    \* channel -> failed topology requests of its current setup run
  lpc,          \* listen call -> position
  ltopic,       \* listen call -> topic argument
  lchan,        \* listen call -> channel it created
  prefetchSet,  \* channel -> prefetch limit set on it (0: none)
  subs,         \* channel -> shard queues it consumes
  msgState,     \* message -> "queued" | "counted" | "suspended" | "handled" | "threw"
  cb,           \* message whose consume callback is running (0: none)
  msgLabel,     \* message -> label pair of the queue it sits in
  msgChan,      \* message -> channel it was delivered on
  msgRun,       \* message -> setup run (broker channel) of that channel it was delivered in
  terms,        \* message -> number of ack/nack calls made for it
  acks,         \* message -> acks sent to the broker
  nacks,        \* message -> nacks sent to the broker
  consumed,     \* metrics.messages_consumed, per label pair
  unacked,      \* metrics.messages_unacked_ram, per label pair
  inst,         \* the instance: "none" | "ready" | "threw" (constructor threw)
  chost,        \* the host argument of the constructor: "unset" | "given" | "undefined"
  cbody,        \* publish call -> body argument: "unset" | "given" | "undefined"
  lproc,        \* listen call -> processor argument, likewise
  cerr,         \* publish call -> error its promise rejected with ("none": none)
  lerr,         \* listen call -> error its promise rejected with
  attempted,    \* channel -> topology requests its current setup run has issued
  refusedBinds, \* broker: the bindings it refuses to make
  connObj,      \* this.connection (Null, or the connection manager)
  nconn,        \* connection managers created so far by amqp.connect
  connReg,      \* connection -> whether connect() has registered its handlers
  connStatus,   \* connection -> "none" | "connecting" | "up" | "down"
  connPromise,  \* connection -> promise of the connect() call: "none" | "pending" | "resolved"
  everUp,       \* connection -> whether it has emitted a connect event
  up,           \* metrics.up
  lastSeen,     \* the last event a registered handler was called with
  nevents,      \* connect/disconnect events emitted so far
  ncancel,      \* cancel() calls made so far
  cancelReq,    \* cancellations requested of the connection's channel
  media,        \* the rows of table media, in insertion order
  npc,          \* Storage.new call -> position
  npair,        \* Storage.new call -> its (metadata, metadataId) arguments
  nignore,      \* Storage.new call -> its ignoreExisting argument
  nfound,       \* Storage.new call -> existingId (Null: null)
  tproto,       \* number of protobuf types Telemetry.connect() has loaded (0..2)
  epc,          \* emit call -> "idle" | "publishing" | "returned" | "threw"
  emethod,      \* emit call -> "emitStatus" | "emitProgress"
  eargs,        \* emit call -> its arguments <<mediaId, status, progress>>
  epayload,     \* emit call -> the payload it built
  eenc,         \* emit call -> outcome of proto.encode: "none" | "ok" | "failed"
  ecall,        \* emit call -> the publish call it made (0: none)
  eret,         \* emit call -> the value its promise resolved with
  gpc,          \* getObjects: "idle" | "listening" (the handlers are registered)
  prefixArg,    \* getObjects: the prefix argument
  prefix,       \* getObjects: the variable prefix
  objects,      \* getObjects: the array objects (the value the promise resolves with)
  gerrored,     \* getObjects: the flag errored
  gpromise,     \* getObjects: its promise: "pending" | "resolved" | "rejected"
  gsettles,     \* getObjects: number of times the promise changed state
  gevents       \* the events the listing stream has emitted, in order

instVars == <<N, prefetch, mode, topicState, pchannel>>
chanVars == <<nchan, chKind, chTopic, setupPos, setupState, setupErrs, runs, attempted>>
callVars == <<pc, ctopic, rkIndex, cchan, cok>>
pubMetrics == <<published, errored>>
brokerVars == <<exchanges, queues, bindings>>
listenVars == <<lpc, ltopic, lchan>>
consVars == <<prefetchSet, subs, cb, msgState, msgLabel, msgChan, msgRun, terms,
              acks, nacks, consumed, unacked>>

cfgVars == <<inst, chost, cbody, lproc, cerr, lerr>>
connVars == <<connObj, nconn, connReg, connStatus, connPromise, everUp, up, lastSeen,
              nevents>>

cancelVars == <<ncancel, cancelReq>>
\* what none of the publisher's, the consumer's and the connection's steps touch
dbVars == <<media, npc, npair, nignore, nfound>>
telVars == <<tproto, epc, emethod, eargs, epayload, eenc, ecall, eret>>
minioVars == <<gpc, prefixArg, prefix, objects, gerrored, gpromise, gsettles, gevents>>
restVars == <<refusedBinds, cancelVars, dbVars, telVars, minioVars>>

vars == <<instVars, chanVars, callVars, pubMetrics, sent, brokerVars, listenVars,
          consVars, cfgVars, restVars, connVars>>

(* --------------------------- the publisher ----------------------------- *)

\* mutant of LabelsOf: the queue label is built without the shard index
LabelsOf_NoIndex(t, i) == <<t, 0>>

\* the metrics labels of a publish: { queue: rk, exchange: topic }
LabelsOf(t, i) == <<t, i>>

\* const rk = `${topic}-${rkIndex}`
RoutingKey(t, i) == <<t, i>>

Inc(counter, lab) == [counter EXCEPT ![lab] = @ + 1]
Dec(counter, lab) == [counter EXCEPT ![lab] = @ - 1]

\* connection.createChannel({ setup }): a new channel wrapper whose setup
\* closure captured topic t
CreateChannel(kind, t) ==
  /\ nchan < MaxChan
  /\ nchan' = nchan + 1
  /\ chKind' = [chKind EXCEPT ![nchan + 1] = kind]
  /\ chTopic' = [chTopic EXCEPT ![nchan + 1] = t]
  /\ UNCHANGED <<setupPos, setupState, setupErrs, runs, attempted>>

\* the mode check at the head of publish
PublishRefused == mode = "consumer"

\* the mode publish leaves the instance in
ModeAfterPublish == mode

\* mutant of MissingArg: the default parameter never fires
MissingArg_Never(a) == FALSE

\* a parameter declared `= required()`: the default is evaluated, and
\* throws, when the argument is undefined
MissingArg(a) == a = Missing

\* publish(topic, body) up to its first await: the parameter defaults, the
\* mode check, then generateChannel() up to the await of createChannel (a
\* TypeError while this.connection is null), or, when the channel is cached,
\* up to the await of generateChannel itself
PublishStart(c, t, b) ==
  /\ cb = 0
  /\ inst = "ready"
  /\ pc[c] = "idle"
  /\ \A d \in Calls : d < c => pc[d] # "idle"
  /\ ctopic' = [ctopic EXCEPT ![c] = t]
  /\ cbody' = [cbody EXCEPT ![c] = b]
  /\ IF MissingArg(t) \/ MissingArg(b)
       THEN /\ pc' = [pc EXCEPT ![c] = "threw"]
            /\ cerr' = [cerr EXCEPT ![c] = "config"]
            /\ UNCHANGED <<mode, chanVars, cchan>>
       ELSE /\ mode' = ModeAfterPublish
            /\ IF PublishRefused
                 THEN /\ pc' = [pc EXCEPT ![c] = "threw"]
                      /\ cerr' = [cerr EXCEPT ![c] = "mode"]
                      /\ UNCHANGED <<chanVars, cchan>>
                 ELSE IF pchannel = Null /\ connObj = Null
                   THEN /\ pc' = [pc EXCEPT ![c] = "threw"]
                        /\ cerr' = [cerr EXCEPT ![c] = "type"]
                        /\ UNCHANGED <<chanVars, cchan>>
                 ELSE IF pchannel = Null
                   THEN /\ CreateChannel("pub", t)
                        /\ cchan' = [cchan EXCEPT ![c] = nchan + 1]
                        /\ pc' = [pc EXCEPT ![c] = "created"]
                        /\ UNCHANGED cerr
                   ELSE /\ cchan' = [cchan EXCEPT ![c] = pchannel]
                        /\ pc' = [pc EXCEPT ![c] = "generated"]
                        /\ UNCHANGED <<chanVars, cerr>>
  /\ UNCHANGED <<N, prefetch, topicState, pchannel, rkIndex, cok, pubMetrics, sent,
                 brokerVars, listenVars, consVars>>
  /\ UNCHANGED <<inst, chost, lproc, lerr, refusedBinds, cancelVars, dbVars, connVars,
                 minioVars>>

\* a publish call made by the application itself
PublishCall(c, t, b) == PublishStart(c, t, b) /\ UNCHANGED telVars

\* this.pchannel = <awaited channel>; then this.pchannel.waitForConnect()
AssignChannel(c) ==
  /\ cb = 0
  /\ pc[c] = "created"
  /\ pchannel' = cchan[c]
  /\ pc' = [pc EXCEPT ![c] = "waiting"]
  /\ UNCHANGED <<N, prefetch, mode, topicState, chanVars, ctopic, rkIndex, cchan, cok,
                 pubMetrics, sent, brokerVars, listenVars, consVars>>
  /\ UNCHANGED <<cfgVars, restVars, connVars>>

\* a channel reports connected once its setup promise has resolved
Connected(ch) == setupState[ch] = "resolved"

\* A publish call has a continuation in the microtask queue: its await of
\* createChannel's value, of a waitForConnect() that has resolved, or of
\* generateChannel's result. The event loop runs these before it handles
\* the next reply or event of the broker.
MicrotaskPending ==
  \E c \in Calls :
    \/ pc[c] \in {"created", "generated"}
    \/ pc[c] = "waiting" /\ Connected(cchan[c])

\* waitForConnect() resolves; generateChannel returns this.pchannel
ChannelReady(c) ==
  /\ cb = 0
  /\ pc[c] = "waiting"
  /\ Connected(cchan[c])
  /\ cchan' = [cchan EXCEPT ![c] = pchannel]
  /\ pc' = [pc EXCEPT ![c] = "generated"]
  /\ UNCHANGED <<instVars, chanVars, ctopic, rkIndex, cok, pubMetrics, sent,
                 brokerVars, listenVars, consVars>>
  /\ UNCHANGED <<cfgVars, restVars, connVars>>

\* let rkIndex = this._topicState.get(topic); undefined -> 0
ReadIndex(t) == IF topicState[t] = Undefined THEN 0 ELSE topicState[t]

\* mutant of TopicStateAfterSet: the index is stored for every topic
TopicStateAfterSet_EveryTopic(t, i) == [u \in Topics |-> i]

\* this._topicState.set(topic, rkIndex)
TopicStateAfterSet(t, i) == [topicState EXCEPT ![t] = i]

\* the synchronous stretch after `await generateChannel()`: read the shard
\* index, format the routing key, hand the message to channel.publish
SelectShard(c) ==
  /\ cb = 0
  /\ pc[c] = "generated"
  /\ rkIndex' = [rkIndex EXCEPT ![c] = ReadIndex(ctopic[c])]
  /\ topicState' = TopicStateAfterSet(ctopic[c], ReadIndex(ctopic[c]))
  /\ sent' = Append(sent, [exchange |-> ctopic[c], rk |-> ReadIndex(ctopic[c]),
                           key |-> RoutingKey(ctopic[c], ReadIndex(ctopic[c])),
                           chan |-> cchan[c], call |-> c])
  /\ pc' = [pc EXCEPT ![c] = "publishing"]
  /\ UNCHANGED <<N, prefetch, mode, pchannel, chanVars, ctopic, cchan, cok, pubMetrics,
                 brokerVars, listenVars, consVars>>
  /\ UNCHANGED <<cfgVars, restVars, connVars>>

\* mutants of NextIndex: the wrap is tested one step late; there is no wrap
NextIndex_LateWrap(i) == IF i = N THEN 0 ELSE i + 1
NextIndex_NoWrap(i) == i + 1

\* reset if we're at the max num of consumer queues, else rkIndex++
NextIndex(i) == IF i = N - 1 THEN 0 ELSE i + 1

\* mutants of ErroredAfter: the error counter is bumped outside the catch
\* block; the catch block forgets the counter
ErroredAfter_Always(lab, ok) == Inc(errored, lab)
ErroredAfter_Never(lab, ok) == errored

\* metrics.messages_published_errored after channel.publish settled
ErroredAfter(lab, ok) == IF ok THEN errored ELSE Inc(errored, lab)

\* mutant of PublishedAfter: the counter is bumped inside the try block, after
\* the awaited channel.publish
PublishedAfter_InsideTry(lab, ok) == IF ok THEN Inc(published, lab) ELSE published

\* metrics.messages_published after channel.publish settled
PublishedAfter(lab, ok) == Inc(published, lab)

\* channel.publish settles (ok: resolved, which takes a connected channel;
\* ~ok: rejected); the catch block, the metrics and the write-back of the
\* advanced index
PublishSettle(c, ok) ==
  /\ cb = 0
  /\ ~MicrotaskPending
  /\ pc[c] = "publishing"
  /\ ok => Connected(cchan[c])
  /\ cok' = [cok EXCEPT ![c] = ok]
  /\ errored' = ErroredAfter(LabelsOf(ctopic[c], rkIndex[c]), ok)
  /\ published' = PublishedAfter(LabelsOf(ctopic[c], rkIndex[c]), ok)
  /\ topicState' = TopicStateAfterSet(ctopic[c], NextIndex(rkIndex[c]))
  /\ pc' = [pc EXCEPT ![c] = "done"]
  /\ UNCHANGED <<N, prefetch, mode, pchannel, chanVars, ctopic, rkIndex, cchan, sent,
                 brokerVars, listenVars, consVars>>
  /\ UNCHANGED <<cfgVars, restVars, connVars>>

(* ----------------------- topology provisioning ------------------------- *)

\* the broker's side of channel.assertExchange(name, 'direct', {}): an
\* exchange of the same type is left alone, one of another type is refused
ExchangeAssertOk(t) == exchanges[t] # "other"
ExchangesAfterAssert(t) ==
  IF exchanges[t] = "none" THEN [exchanges EXCEPT ![t] = "direct"] ELSE exchanges

\* the broker's side of channel.assertQueue(queueName): a queue declared
\* elsewhere with other properties is refused
QueueAssertOk(q) == queues[q] # "other"
QueuesAfterAssert(q) ==
  IF queues[q] = "none" THEN [queues EXCEPT ![q] = "ok"] ELSE queues

\* the broker's side of channel.bindQueue(queue, exchange, queue): needs
\* both ends to exist, and the broker to allow it
BindOk(q) == queues[q] # "none" /\ exchanges[q[1]] # "none" /\ q \notin refusedBinds

\* const queueName = `${exchangeName}-${i}`
QueueName(t, i) == <<t, i>>

\* mutants of ShardIndices: the loop runs one shard too far; it starts at 1
ShardIndices_OneMore == 0..N
ShardIndices_FromOne == 1..N

\* for (let i = 0; i !== this.numConsumerQueues; i++)
ShardIndices == 0..(N - 1)

\* The requests one run of a channel's setup issues, in the order the channel
\* (which serves one request at a time) answers them.
\*   listen: await _ensureExchange; await _ensureConsumerQueues; prefetch
\*           and the N consume calls
\*   pub:    _ensureConsumerQueues is started but not awaited, so its first
\*           assertQueue is issued before _ensureExchange's assertExchange,
\*           and its later requests after it
SetupLen(kind) == IF kind = "listen" THEN 2 * Cardinality(ShardIndices) + 2
                  ELSE 2 * Cardinality(ShardIndices) + 1

SetupOp(kind, pos) ==
  IF kind = "listen"
    THEN IF pos = 0 THEN <<"exchange", 0>>
         ELSE IF pos = SetupLen(kind) - 1 THEN <<"subscribe", 0>>
         ELSE <<IF (pos - 1) % 2 = 0 THEN "queue" ELSE "bind", (pos - 1) \div 2>>
    ELSE IF pos = 1 THEN <<"exchange", 0>>
         ELSE IF pos = 0 THEN <<"queue", 0>>
         ELSE <<IF (pos - 1) % 2 = 0 THEN "queue" ELSE "bind", (pos - 1) \div 2>>

SetupFinished(ch) ==
  \/ chKind[ch] = "listen" /\ setupState[ch] = "rejected"
  \/ setupState[ch] # "idle" /\ setupPos[ch] = SetupLen(chKind[ch])

\* the connection manager starts a run of the channel's setup function, on
\* a fresh broker channel, which has no prefetch limit and no consumers yet
StartSetup(ch) ==
  /\ runs' = [runs EXCEPT ![ch] = @ + 1]
  /\ setupState' = [setupState EXCEPT ![ch] = "running"]
  /\ setupPos' = [setupPos EXCEPT ![ch] = 0]
  /\ setupErrs' = [setupErrs EXCEPT ![ch] = 0]
  /\ attempted' = [attempted EXCEPT ![ch] = {}]
  /\ prefetchSet' = [prefetchSet EXCEPT ![ch] = 0]
  /\ subs' = [subs EXCEPT ![ch] = {}]
  /\ UNCHANGED <<instVars, nchan, chKind, chTopic, callVars, pubMetrics, sent,
                 brokerVars, listenVars, cb, msgState, msgLabel, msgChan, msgRun, terms,
                 acks, nacks, consumed, unacked>>
  /\ UNCHANGED <<cfgVars, restVars, connVars>>

\* the channel's first setup run, once the connection is up
SetupRun(ch) ==
  /\ cb = 0
  /\ ~MicrotaskPending
  /\ chKind[ch] # "none"
  /\ setupState[ch] = "idle"
  /\ StartSetup(ch)

\* the connection dropped and came back: the setup runs again
Reconnect(ch) ==
  /\ cb = 0
  /\ ~MicrotaskPending
  /\ chKind[ch] # "none"
  /\ SetupFinished(ch)
  /\ runs[ch] < 1 + MaxReconnects
  /\ StartSetup(ch)

\* _ensureExchange: the promise of channel.assertExchange is returned as is,
\* so a refusal rejects the setup; in listen's setup it is awaited first and
\* a rejection ends the setup there
EnsureExchange(ch) ==
  /\ exchanges' = ExchangesAfterAssert(chTopic[ch])
  /\ IF ExchangeAssertOk(chTopic[ch])
       THEN /\ setupState' = [setupState EXCEPT ![ch] = IF chKind[ch] = "pub"
                                                        THEN "resolved" ELSE @]
            /\ setupErrs' = setupErrs
       ELSE /\ setupState' = [setupState EXCEPT ![ch] = "rejected"]
            /\ setupErrs' = [setupErrs EXCEPT ![ch] = @ + 1]
  /\ UNCHANGED <<queues, bindings, prefetchSet, subs>>

\* mutant of EnsureQueue: the catch block rethrows
EnsureQueue_Rethrow(ch, i) ==
  /\ queues' = IF QueueAssertOk(QueueName(chTopic[ch], i))
                 THEN QueuesAfterAssert(QueueName(chTopic[ch], i)) ELSE queues
  /\ setupErrs' = IF QueueAssertOk(QueueName(chTopic[ch], i)) THEN setupErrs
                  ELSE [setupErrs EXCEPT ![ch] = @ + 1]
  /\ setupState' = IF QueueAssertOk(QueueName(chTopic[ch], i)) THEN setupState
                   ELSE [setupState EXCEPT ![ch] = "rejected"]
  /\ UNCHANGED <<exchanges, bindings, prefetchSet, subs>>

\* one pass of the try/catch around channel.assertQueue(queueName)
EnsureQueue(ch, i) ==
  /\ queues' = IF QueueAssertOk(QueueName(chTopic[ch], i))
                 THEN QueuesAfterAssert(QueueName(chTopic[ch], i)) ELSE queues
  /\ setupErrs' = IF QueueAssertOk(QueueName(chTopic[ch], i)) THEN setupErrs
                  ELSE [setupErrs EXCEPT ![ch] = @ + 1]
  /\ UNCHANGED <<exchanges, bindings, setupState, prefetchSet, subs>>

\* one pass of the try/catch around channel.bindQueue(queueName,
\* exchangeName, queueName)
EnsureBinding(ch, i) ==
  /\ bindings' = IF BindOk(QueueName(chTopic[ch], i))
                   THEN bindings \cup {QueueName(chTopic[ch], i)} ELSE bindings
  /\ setupErrs' = IF BindOk(QueueName(chTopic[ch], i)) THEN setupErrs
                  ELSE [setupErrs EXCEPT ![ch] = @ + 1]
  /\ UNCHANGED <<exchanges, queues, setupState, prefetchSet, subs>>

\* channel.prefetch(this.prefetch, true), then one channel.consume per shard
\* queue; the setup promise resolves
Subscribe(ch) ==
  /\ prefetchSet' = [prefetchSet EXCEPT ![ch] = prefetch]
  /\ subs' = [subs EXCEPT ![ch] =
                {QueueName(chTopic[ch], i) : i \in ShardIndices}]
  /\ setupState' = [setupState EXCEPT ![ch] = "resolved"]
  /\ UNCHANGED <<brokerVars, setupErrs>>

\* the broker answers the next request of the channel's running setup and
\* the setup runs on to its next request
SetupStep(ch) ==
  /\ cb = 0
  /\ ~MicrotaskPending
  /\ chKind[ch] # "none"
  /\ setupState[ch] # "idle"
  /\ chKind[ch] = "listen" => setupState[ch] # "rejected"
  /\ setupPos[ch] < SetupLen(chKind[ch])
  /\ LET op == SetupOp(chKind[ch], setupPos[ch]) IN
       CASE op[1] = "exchange" -> EnsureExchange(ch)
         [] op[1] = "queue" -> EnsureQueue(ch, op[2])
         [] op[1] = "bind" -> EnsureBinding(ch, op[2])
         [] OTHER -> Subscribe(ch)
  /\ setupPos' = [setupPos EXCEPT ![ch] = @ + 1]
  /\ attempted' = [attempted EXCEPT ![ch] =
                     @ \cup {SetupOp(chKind[ch], setupPos[ch])}]
  /\ UNCHANGED <<instVars, nchan, chKind, chTopic, runs, callVars, pubMetrics, sent,
                 listenVars, cb, msgState, msgLabel, msgChan, msgRun, terms, acks, nacks,
                 consumed, unacked>>
  /\ UNCHANGED <<cfgVars, restVars, connVars>>

(* ---------------------------- the consumer ----------------------------- *)

\* the mode check at the head of listen
ListenRefused == mode = "publisher"

\* the mode listen leaves the instance in
ModeAfterListen == mode

\* listen(topic, processor): the parameter defaults, the mode check and
\* connection.createChannel (a TypeError while this.connection is null); the
\* async function then returns
ListenCall(l, t, p) ==
  /\ cb = 0
  /\ inst = "ready"
  /\ lpc[l] = "idle"
  /\ \A k \in Listens : k < l => lpc[k] # "idle"
  /\ ltopic' = [ltopic EXCEPT ![l] = t]
  /\ lproc' = [lproc EXCEPT ![l] = p]
  /\ IF MissingArg(t) \/ MissingArg(p)
       THEN /\ lpc' = [lpc EXCEPT ![l] = "threw"]
            /\ lerr' = [lerr EXCEPT ![l] = "config"]
            /\ UNCHANGED <<mode, chanVars, lchan>>
       ELSE /\ mode' = ModeAfterListen
            /\ IF ListenRefused
                 THEN /\ lpc' = [lpc EXCEPT ![l] = "threw"]
                      /\ lerr' = [lerr EXCEPT ![l] = "mode"]
                      /\ UNCHANGED <<chanVars, lchan>>
                 ELSE IF connObj = Null
                   THEN /\ lpc' = [lpc EXCEPT ![l] = "threw"]
                        /\ lerr' = [lerr EXCEPT ![l] = "type"]
                        /\ UNCHANGED <<chanVars, lchan>>
                   ELSE /\ CreateChannel("listen", t)
                        /\ lchan' = [lchan EXCEPT ![l] = nchan + 1]
                        /\ lpc' = [lpc EXCEPT ![l] = "returned"]
                        /\ UNCHANGED lerr
  /\ UNCHANGED <<N, prefetch, topicState, pchannel, callVars, pubMetrics, sent,
                 brokerVars, consVars>>
  /\ UNCHANGED <<inst, chost, cbody, cerr, restVars, connVars>>

\* deliveries of channel ch, on its current broker channel, the broker has
\* not been told are done; those of an earlier broker channel went back to
\* their queues when it closed
Outstanding(ch) ==
  {m \in Msgs : msgState[m] # "queued" /\ msgChan[m] = ch /\ msgRun[m] = runs[ch]
                /\ acks[m] + nacks[m] = 0}

\* the broker withholds deliveries once the channel's unacknowledged count
\* reaches its prefetch limit (0: no limit)
MayDeliver(ch) ==
  prefetchSet[ch] = 0 \/ Cardinality(Outstanding(ch)) < prefetchSet[ch]

\* the consume callback up to the call of the processor:
\* messages_consumed.inc(labels); messages_unacked_ram.inc(labels)
ConsumedAfterDelivery(lab) == Inc(consumed, lab)

\* mutant of UnackedAfterDelivery: the gauge is not raised on delivery
UnackedAfterDelivery_Missing(lab) == unacked

UnackedAfterDelivery(lab) == Inc(unacked, lab)

Deliver(m, ch, q) ==
  /\ cb = 0
  /\ ~MicrotaskPending
  /\ msgState[m] = "queued"
  /\ \A k \in Msgs : k < m => msgState[k] # "queued"
  /\ q \in subs[ch]
  /\ MayDeliver(ch)
  /\ msgLabel' = [msgLabel EXCEPT ![m] = q]
  /\ msgChan' = [msgChan EXCEPT ![m] = ch]
  /\ msgRun' = [msgRun EXCEPT ![m] = runs[ch]]
  /\ consumed' = ConsumedAfterDelivery(q)
  /\ unacked' = UnackedAfterDelivery(q)
  /\ msgState' = [msgState EXCEPT ![m] = "counted"]
  /\ cb' = m
  /\ UNCHANGED <<instVars, chanVars, callVars, pubMetrics, sent, brokerVars,
                 listenVars, prefetchSet, subs, terms, acks, nacks>>
  /\ UNCHANGED <<cfgVars, restVars, connVars>>

\* mutant of AckEnvelope: only the first call for a message lowers the gauge
AckEnvelope_FirstOnly(m) ==
  /\ unacked' = IF terms[m] = 0 THEN Dec(unacked, msgLabel[m]) ELSE unacked
  /\ acks' = [acks EXCEPT ![m] = @ + 1]
  /\ terms' = [terms EXCEPT ![m] = @ + 1]
  /\ UNCHANGED nacks

\* the envelope's ack: messages_unacked_ram.dec(labels); channelWrapper.ack(msg)
AckEnvelope(m) ==
  /\ unacked' = Dec(unacked, msgLabel[m])
  /\ acks' = [acks EXCEPT ![m] = @ + 1]
  /\ terms' = [terms EXCEPT ![m] = @ + 1]
  /\ UNCHANGED nacks

\* the envelope's nack: messages_unacked_ram.dec(labels); channelWrapper.nack(msg)
NackEnvelope(m) ==
  /\ unacked' = Dec(unacked, msgLabel[m])
  /\ nacks' = [nacks EXCEPT ![m] = @ + 1]
  /\ terms' = [terms EXCEPT ![m] = @ + 1]
  /\ UNCHANGED acks

\* mutant of CatchBlock: the catch block rejects the message
CatchBlock_Nacks(m) == NackEnvelope(m)

\* catch (err) { logger.error('processor failed', err.message) }
CatchBlock(m) == UNCHANGED <<unacked, acks, nacks, terms>>

\* processor({ message, ack, nack }) inside the try block. The handler
\* returns (keeping the envelope for later), acks or nacks before it
\* returns, or throws; a throw is caught and logged. An async handler that
\* awaits returns its pending promise at the await ("suspend"): the callback
\* does not await it and returns
InvokeProcessor(h) ==
  /\ cb # 0
  /\ CASE h = "ack" -> AckEnvelope(cb)
       [] h = "nack" -> NackEnvelope(cb)
       [] h = "throw" -> CatchBlock(cb)
       [] OTHER -> UNCHANGED <<unacked, acks, nacks, terms>>
  /\ msgState' = [msgState EXCEPT ![cb] = CASE h = "throw" -> "threw"
                                             [] h = "suspend" -> "suspended"
                                             [] OTHER -> "handled"]
  /\ cb' = 0
  /\ UNCHANGED <<instVars, chanVars, callVars, pubMetrics, sent, brokerVars,
                 listenVars, prefetchSet, subs, msgLabel, msgChan, msgRun, consumed>>
  /\ UNCHANGED <<cfgVars, restVars, connVars>>

\* an async handler resumes from its await and runs to its end, acking or
\* nacking or doing neither
HandlerResume(m, h) ==
  /\ cb = 0
  /\ msgState[m] = "suspended"
  /\ CASE h = "ack" -> AckEnvelope(m)
       [] h = "nack" -> NackEnvelope(m)
       [] OTHER -> UNCHANGED <<unacked, acks, nacks, terms>>
  /\ msgState' = [msgState EXCEPT ![m] = "handled"]
  /\ UNCHANGED <<instVars, chanVars, callVars, pubMetrics, sent, brokerVars,
                 listenVars, prefetchSet, subs, cb, msgLabel, msgChan, msgRun, consumed>>
  /\ UNCHANGED <<cfgVars, restVars, connVars>>

\* the handler calls the envelope's ack() after it has returned
Ack(m) ==
  /\ cb = 0
  /\ msgState[m] = "handled"
  /\ terms[m] < MaxTerm
  /\ AckEnvelope(m)
  /\ UNCHANGED <<instVars, chanVars, callVars, pubMetrics, sent, brokerVars,
                 listenVars, prefetchSet, subs, cb, msgState, msgLabel, msgChan, msgRun,
                 consumed>>
  /\ UNCHANGED <<cfgVars, restVars, connVars>>

\* the handler calls the envelope's nack() after it has returned
Nack(m) ==
  /\ cb = 0
  /\ msgState[m] = "handled"
  /\ terms[m] < MaxTerm
  /\ NackEnvelope(m)
  /\ UNCHANGED <<instVars, chanVars, callVars, pubMetrics, sent, brokerVars,
                 listenVars, prefetchSet, subs, cb, msgState, msgLabel, msgChan, msgRun,
                 consumed>>
  /\ UNCHANGED <<cfgVars, restVars, connVars>>

\* the mode check at the head of cancel: `if (this.mode !== 'consumer') return`
CancelRequested == mode = "consumer"

\* cancel(): past the mode check it asks the connection's channel to cancel
Cancel ==
  /\ cb = 0
  /\ inst = "ready"
  /\ ncancel < MaxCancels
  /\ ncancel' = ncancel + 1
  /\ cancelReq' = IF CancelRequested THEN cancelReq + 1 ELSE cancelReq
  /\ UNCHANGED <<instVars, chanVars, callVars, pubMetrics, sent, brokerVars,
                 listenVars, consVars, cfgVars, refusedBinds, connVars, dbVars,
                 telVars, minioVars>>

(* ------------------- the constructor and the connection ---------------- *)

allButCfgConn == <<instVars, chanVars, callVars, pubMetrics, sent, brokerVars,
                   listenVars, consVars, restVars>>

\* the constructor throws: host = required() fires, or no prometheus client
\* was passed
ConstructorThrows(host, prom) == MissingArg(host) \/ ~prom

\* new AMQP(host, prefetch, numConsumerQueues, prom)
Construct(host, prom) ==
  /\ inst = "none"
  /\ chost' = host
  /\ inst' = IF ConstructorThrows(host, prom) THEN "threw" ELSE "ready"
  /\ UNCHANGED <<cbody, lproc, cerr, lerr, connVars, allButCfgConn>>

\* connect() up to its await: the promise is made and amqp.connect() starts
\* a connection manager, which begins to connect
ConnectCall(k) ==
  /\ cb = 0
  /\ inst = "ready"
  /\ k = nconn + 1
  /\ \A j \in Conns : j < k => connReg[j]
  /\ nconn' = k
  /\ connStatus' = [connStatus EXCEPT ![k] = "connecting"]
  /\ connPromise' = [connPromise EXCEPT ![k] = "pending"]
  /\ UNCHANGED <<connObj, connReg, everUp, up, lastSeen, nevents, cfgVars,
                 allButCfgConn>>

\* connect() after its await: this.connection is assigned and the two event
\* handlers are registered. The connection attempt is network I/O, so no
\* event is emitted before this continuation has run.
ConnectRegister(k) ==
  /\ cb = 0
  /\ connStatus[k] # "none"
  /\ ~connReg[k]
  /\ connObj' = k
  /\ connReg' = [connReg EXCEPT ![k] = TRUE]
  /\ UNCHANGED <<nconn, connStatus, connPromise, everUp, up, lastSeen, nevents,
                 cfgVars, allButCfgConn>>

\* mutant of UpAfter: the disconnect handler leaves the gauge alone
UpAfter_DisconnectIgnored(ev) == IF ev = "connect" THEN 1 ELSE up

\* the gauge after a handler ran: metrics.up.set(0) on 'disconnect',
\* metrics.up.set(1) on 'connect'
UpAfter(ev) == IF ev = "connect" THEN 1 ELSE 0

\* mutant of PromiseAfter: the disconnect handler rejects the promise
PromiseAfter_RejectOnDisconnect(p, ev) ==
  IF p # "pending" THEN p ELSE IF ev = "connect" THEN "resolved" ELSE "rejected"

\* the promise of connect() after a handler ran: only the 'connect' handler
\* calls resolve(); reject is never called; settling twice has no effect
PromiseAfter(p, ev) == IF ev = "connect" /\ p = "pending" THEN "resolved" ELSE p

\* the connection manager emits 'connect' (the connection is established)
\* or 'disconnect' (it dropped, or an attempt failed) and the registered
\* handler runs
ConnEvent(k, ev) ==
  /\ cb = 0
  /\ connReg[k]
  /\ nevents < MaxEvents
  /\ ev = "connect" => connStatus[k] # "up"
  /\ connStatus' = [connStatus EXCEPT ![k] = IF ev = "connect" THEN "up" ELSE "down"]
  /\ everUp' = [everUp EXCEPT ![k] = @ \/ ev = "connect"]
  /\ up' = UpAfter(ev)
  /\ lastSeen' = ev
  /\ connPromise' = [connPromise EXCEPT ![k] = PromiseAfter(@, ev)]
  /\ nevents' = nevents + 1
  /\ UNCHANGED <<connObj, nconn, connReg, cfgVars, allButCfgConn>>

(* ------------------------- the media storage -------------------------- *)

amqpVars == <<instVars, chanVars, callVars, pubMetrics, sent, brokerVars, listenVars,
              consVars, cfgVars, connVars, refusedBinds, cancelVars, telVars,
              minioVars>>

\* SELECT id FROM media WHERE metadata = $1 AND metadata_id = $2
RowsOf(p) == {i \in 1..Len(media) : media[i].pair = p}

\* findByMetadata: if (res.rows.length !== 1) return null; return res.rows[0]
FindByMetadata(p) ==
  IF Cardinality(RowsOf(p)) # 1 THEN Null
  ELSE media[CHOOSE i \in RowsOf(p) : TRUE].id

\* UPDATE media SET status = $1 WHERE id = $2
MediaAfterUpdate(id, st) ==
  [i \in 1..Len(media) |-> IF media[i].id = id THEN [media[i] EXCEPT !.status = st]
                           ELSE media[i]]

\* new(..., metadata, metadataId, ignoreExisting) up to its first await: the
\* SELECT of findByMetadata is sent
NewCall(c, p, ig) ==
  /\ npc[c] = "idle"
  /\ \A d \in News : d < c => npc[d] # "idle"
  /\ npair' = [npair EXCEPT ![c] = p]
  /\ nignore' = [nignore EXCEPT ![c] = ig]
  /\ npc' = [npc EXCEPT ![c] = "finding"]
  /\ UNCHANGED <<media, nfound, amqpVars>>

\* the database runs the SELECT; findByMetadata returns
FindReply(c) ==
  /\ npc[c] = "finding"
  /\ nfound' = [nfound EXCEPT ![c] = FindByMetadata(npair[c])]
  /\ npc' = [npc EXCEPT ![c] = "found"]
  /\ UNCHANGED <<media, npair, nignore, amqpVars>>

\* if (existingId === null && ignoreExisting) { // update an existing one
TakesUpdateBranch(existingId, ig) == existingId = Null /\ ig

\* new() after `await this.findByMetadata(...)`: the duplicate check, then
\* the un-awaited updateStatus(existingId, 0) and the return, or the INSERT
\* is sent
NewDecide(c) ==
  /\ npc[c] = "found"
  /\ IF nfound[c] # Null /\ ~nignore[c]
       THEN /\ npc' = [npc EXCEPT ![c] = "threw"]
            /\ UNCHANGED media
       ELSE IF TakesUpdateBranch(nfound[c], nignore[c])
         THEN /\ media' = MediaAfterUpdate(nfound[c], Queued)
              /\ npc' = [npc EXCEPT ![c] = "done"]
         ELSE /\ npc' = [npc EXCEPT ![c] = "inserting"]
              /\ UNCHANGED media
  /\ UNCHANGED <<npair, nignore, nfound, amqpVars>>

\* the database runs the INSERT of a row with a fresh id and the default
\* status; new() returns the encoded payload
InsertReply(c) ==
  /\ npc[c] = "inserting"
  /\ media' = Append(media, [id |-> c, pair |-> npair[c], status |-> Queued])
  /\ npc' = [npc EXCEPT ![c] = "done"]
  /\ UNCHANGED <<npair, nignore, nfound, amqpVars>>

\* another component moves a medium on: updateStatus(id, status)
UpdateStatus(i) ==
  /\ i \in 1..Len(media)
  /\ media[i].status = Queued
  /\ media' = MediaAfterUpdate(media[i].id, Busy)
  /\ UNCHANGED <<npc, npair, nignore, nfound, amqpVars>>

(* ------------------------- the telemetry library ---------------------- *)

\* The model follows one of the two publishers of a Telemetry object,
\* this.statusPublisher or this.progressPublisher: they are two AMQP
\* instances that share no state, and each method uses only its own. The
\* AMQP class the library loads is the one without metrics; its publish is
\* the one above less the two counters.

allButTel == <<instVars, chanVars, callVars, pubMetrics, sent, brokerVars, listenVars,
               consVars, cfgVars, connVars, refusedBinds, cancelVars, dbVars,
               minioVars>>

\* new Telemetry(amqpHost): new AMQP(amqpHost), whose constructor throws
\* only when host = required() fires
NewTelemetry(host) ==
  /\ inst = "none"
  /\ N = FixedConsumerQueues
  /\ chost' = host
  /\ inst' = IF MissingArg(host) THEN "threw" ELSE "ready"
  /\ UNCHANGED <<cbody, lproc, cerr, lerr, connVars, allButCfgConn>>

\* Telemetry.connect(): the next of the two awaited proto.load calls
\* resolves, api.TelemetryStatus first and api.TelemetryProgress second
LoadProto ==
  /\ inst = "ready"
  /\ tproto < 2
  /\ tproto' = tproto + 1
  /\ UNCHANGED <<epc, emethod, eargs, epayload, eenc, ecall, eret, allButTel>>

\* Telemetry.connect() after both protobuf types are loaded: the
\* publisher's connect()
TelemetryConnect(k) == tproto = 2 /\ ConnectCall(k)

\* the channel setup runs once the connection manager is connected
ConnectedSetupRun(ch) ==
  /\ connObj # Null
  /\ connStatus[connObj] = "up"
  /\ SetupRun(ch)

\* this.telemetryStatusProto / this.telemetryProgressProto is set
ProtoLoaded(k) == IF k = "emitStatus" THEN tproto >= 1 ELSE tproto = 2

\* 'v1.telemetry.status' and 'v1.telemetry.progress'
TelemetryTopic(k) == IF k = "emitStatus" THEN "a" ELSE "b"

\* the parameters declared `= required()`: emitStatus(mediaId, status),
\* emitProgress(mediaId, status, progress)
EmitArgMissing(k, mid, st, pr) ==
  \/ MissingArg(mid)
  \/ MissingArg(st)
  \/ k = "emitProgress" /\ MissingArg(pr)

\* const payload = { id: uuid(), mediaId, status, [progress,] host }
PayloadOf(e, k, mid, st, pr) ==
  [id |-> e, mediaId |-> mid, status |-> st,
   progress |-> IF k = "emitProgress" THEN pr ELSE Missing]

\* proto.encode(type, payload) throws: type is undefined (a TypeError), or
\* type.verify(payload) reports an error
EncodeThrows(k, payload) == ~ProtoLoaded(k) \/ payload.status = "1.5"

\* the body handed to publish: `encoded`, which stays undefined when
\* proto.encode threw
BodyOf(enc) == IF enc = "ok" THEN "given" ELSE Missing

\* mutant of EmitAfterPublish: the rejection of publish is passed on
EmitAfterPublish_Rethrow(rejected) == IF rejected THEN "threw" ELSE "returned"

\* the try/catch around `await publisher.publish(...)`: a rejection is
\* logged, and `return payload` follows either way
EmitAfterPublish(rejected) == "returned"

\* emitStatus / emitProgress up to the await of publish: the parameter
\* defaults, the payload, proto.encode in its try block, and publish up to
\* its own first await
EmitCall(e, k, mid, st, pr) ==
  /\ cb = 0
  /\ inst = "ready"
  /\ epc[e] = "idle"
  /\ \A d \in Emits : d < e => epc[d] # "idle"
  /\ \A d \in Emits : epc[d] # "idle" => emethod[d] = k
  /\ k = "emitStatus" => pr = Missing
  /\ emethod' = [emethod EXCEPT ![e] = k]
  /\ eargs' = [eargs EXCEPT ![e] = <<mid, st, pr>>]
  /\ IF EmitArgMissing(k, mid, st, pr)
       THEN /\ epc' = [epc EXCEPT ![e] = "threw"]
            /\ UNCHANGED <<epayload, eenc, ecall, allButTel>>
       ELSE LET payload == PayloadOf(e, k, mid, st, pr)
                enc == IF EncodeThrows(k, payload) THEN "failed" ELSE "ok"
            IN /\ epayload' = [epayload EXCEPT ![e] = payload]
               /\ eenc' = [eenc EXCEPT ![e] = enc]
               /\ \E c \in Calls :
                    /\ PublishStart(c, TelemetryTopic(k), BodyOf(enc))
                    /\ ecall' = [ecall EXCEPT ![e] = c]
               /\ epc' = [epc EXCEPT ![e] = "publishing"]
  /\ UNCHANGED <<tproto, eret>>

\* the awaited publish has settled: the catch block, then `return payload`
EmitReturn(e) ==
  /\ cb = 0
  /\ epc[e] = "publishing"
  /\ pc[ecall[e]] \in {"done", "threw"}
  /\ epc' = [epc EXCEPT ![e] = EmitAfterPublish(pc[ecall[e]] = "threw")]
  /\ eret' = [eret EXCEPT ![e] = IF epc'[e] = "returned" THEN epayload[e] ELSE NoPayload]
  /\ UNCHANGED <<tproto, emethod, eargs, epayload, eenc, ecall, allButTel>>

(* --------------------------- the object store ------------------------- *)

allButMinio == <<instVars, chanVars, callVars, pubMetrics, sent, brokerVars,
                 listenVars, consVars, cfgVars, connVars, refusedBinds, cancelVars,
                 dbVars, telVars>>

\* prefix.replace(/\/$/, ''): one trailing slash is removed
StripSlash(p) ==
  IF Len(p) > 0 /\ p[Len(p)] = "/" THEN SubSeq(p, 1, Len(p) - 1) ELSE p

\* the positions of the slashes in a name
Slashes(n) == {i \in 1..Len(n) : n[i] = "/"}

\* path.parse(name).dir: what stands before the last slash, '' without one,
\* and '/' when the only slash leads the name
DirOf(n) ==
  IF Slashes(n) = {} THEN <<>>
  ELSE LET k == CHOOSE i \in Slashes(n) : \A j \in Slashes(n) : j <= i
       IN IF k = 1 THEN <<"/">> ELSE SubSeq(n, 1, k - 1)

\* mutant of Settle: a later resolve or reject replaces the outcome
Settle_Overwrites(p, to) == to

\* resolve() and reject() of a promise: the first call settles it, every
\* later call has no effect
Settle(p, to) == IF p = "pending" THEN to ELSE p

\* the 'data' handler: an entry without a name is skipped, and so is one
\* whose directory is not the prefix; any other is pushed
ObjectsAfterData(n) ==
  IF n = <<>> THEN objects
  ELSE IF DirOf(n) # prefix THEN objects
  ELSE Append(objects, n)

\* getObjects(s3Client, bucketId, prefix): the promise is made, its executor
\* strips the prefix, starts the listing and registers the three handlers
GetObjects(p) ==
  /\ gpc = "idle"
  /\ gpc' = "listening"
  /\ prefixArg' = p
  /\ prefix' = StripSlash(p)
  /\ UNCHANGED <<objects, gerrored, gpromise, gsettles, gevents, allButMinio>>

\* the stream emits 'data' with an object named n
OnData(n) ==
  /\ gpc = "listening"
  /\ Len(gevents) < MaxStreamEvents
  /\ objects' = ObjectsAfterData(n)
  /\ gevents' = Append(gevents, [kind |-> "data", name |-> n])
  /\ UNCHANGED <<gpc, prefixArg, prefix, gerrored, gpromise, gsettles, allButMinio>>

\* the stream emits 'end': if (errored) return; resolve(objects)
OnEnd ==
  /\ gpc = "listening"
  /\ Len(gevents) < MaxStreamEvents
  /\ gpromise' = IF gerrored THEN gpromise ELSE Settle(gpromise, "resolved")
  /\ gsettles' = IF gpromise' # gpromise THEN gsettles + 1 ELSE gsettles
  /\ gevents' = Append(gevents, [kind |-> "end", name |-> <<>>])
  /\ UNCHANGED <<gpc, prefixArg, prefix, objects, gerrored, allButMinio>>

\* the stream emits 'error': errored = true; reject(err)
OnError ==
  /\ gpc = "listening"
  /\ Len(gevents) < MaxStreamEvents
  /\ gerrored' = TRUE
  /\ gpromise' = Settle(gpromise, "rejected")
  /\ gsettles' = IF gpromise' # gpromise THEN gsettles + 1 ELSE gsettles
  /\ gevents' = Append(gevents, [kind |-> "error", name |-> <<>>])
  /\ UNCHANGED <<gpc, prefixArg, prefix, objects, allButMinio>>

(* --------------------------- specifications ---------------------------- *)

\* the shard queues a broker may already hold under other properties
ShardLabels == Topics \X (0..(MaxN - 1))

\* An instance given numConsumerQueues in ns and prefetch in ps, facing a
\* broker on which the exchanges in exs and the queues in qs already exist
\* with other properties and which refuses the bindings in bs. connected:
\* the instance is constructed and its connect() has resolved; otherwise the
\* constructor has not run yet.
InitState(ns, ps, exs, qs, bs, connected) ==
  /\ N \in ns
  /\ prefetch \in ps
  /\ mode = "unset"
  /\ topicState = [t \in Topics |-> Undefined]
  /\ pchannel = Null
  /\ nchan = 0
  /\ chKind = [ch \in Chans |-> "none"]
  /\ chTopic = [ch \in Chans |-> "a"]
  /\ setupPos = [ch \in Chans |-> 0]
  /\ setupState = [ch \in Chans |-> "idle"]
  /\ setupErrs = [ch \in Chans |-> 0]
  /\ runs = [ch \in Chans |-> 0]
  /\ pc = [c \in Calls |-> "idle"]
  /\ ctopic = [c \in Calls |-> "a"]
  /\ rkIndex = [c \in Calls |-> Undefined]
  /\ cchan = [c \in Calls |-> Null]
  /\ cok = [c \in Calls |-> FALSE]
  /\ published = [l \in Labels |-> 0]
  /\ errored = [l \in Labels |-> 0]
  /\ sent = <<>>
  /\ exchanges \in {[t \in Topics |-> IF t \in x THEN "other" ELSE "none"] : x \in exs}
  /\ queues \in {[l \in Labels |-> IF l \in x THEN "other" ELSE "none"] : x \in qs}
  /\ bindings = {}
  /\ lpc = [l \in Listens |-> "idle"]
  /\ ltopic = [l \in Listens |-> "a"]
  /\ lchan = [l \in Listens |-> Null]
  /\ prefetchSet = [ch \in Chans |-> 0]
  /\ subs = [ch \in Chans |-> {}]
  /\ cb = 0
  /\ msgState = [m \in Msgs |-> "queued"]
  /\ msgLabel = [m \in Msgs |-> <<"a", 0>>]
  /\ msgChan = [m \in Msgs |-> Null]
  /\ msgRun = [m \in Msgs |-> 0]
  /\ terms = [m \in Msgs |-> 0]
  /\ acks = [m \in Msgs |-> 0]
  /\ nacks = [m \in Msgs |-> 0]
  /\ consumed = [l \in Labels |-> 0]
  /\ unacked = [l \in Labels |-> 0]
  /\ inst = IF connected THEN "ready" ELSE "none"
  /\ chost = IF connected THEN "given" ELSE "unset"
  /\ cbody = [c \in Calls |-> "unset"]
  /\ lproc = [l \in Listens |-> "unset"]
  /\ cerr = [c \in Calls |-> "none"]
  /\ lerr = [l \in Listens |-> "none"]
  /\ attempted = [ch \in Chans |-> {}]
  /\ refusedBinds \in bs
  /\ connObj = IF connected THEN 1 ELSE Null
  /\ nconn = IF connected THEN 1 ELSE 0
  /\ connReg = [k \in Conns |-> connected /\ k = 1]
  /\ connStatus = [k \in Conns |-> IF connected /\ k = 1 THEN "up" ELSE "none"]
  /\ connPromise = [k \in Conns |-> IF connected /\ k = 1 THEN "resolved" ELSE "none"]
  /\ everUp = [k \in Conns |-> connected /\ k = 1]
  /\ up = IF connected THEN 1 ELSE 0
  /\ lastSeen = IF connected THEN "connect" ELSE "none"
  /\ nevents = IF connected THEN 1 ELSE 0
  /\ ncancel = 0
  /\ cancelReq = 0
  /\ media = <<>>
  /\ npc = [c \in News |-> "idle"]
  /\ npair = [c \in News |-> "p"]
  /\ nignore = [c \in News |-> FALSE]
  /\ nfound = [c \in News |-> Null]
  /\ tproto = 0
  /\ epc = [e \in Emits |-> "idle"]
  /\ emethod = [e \in Emits |-> "emitStatus"]
  /\ eargs = [e \in Emits |-> <<Missing, Missing, Missing>>]
  /\ epayload = [e \in Emits |-> NoPayload]
  /\ eenc = [e \in Emits |-> "none"]
  /\ ecall = [e \in Emits |-> 0]
  /\ eret = [e \in Emits |-> NoPayload]
  /\ gpc = "idle"
  /\ prefixArg = <<>>
  /\ prefix = <<>>
  /\ objects = <<>>
  /\ gerrored = FALSE
  /\ gpromise = "pending"
  /\ gsettles = 0
  /\ gevents = <<>>

\* the instance as the constructor left it, connected to a broker that
\* refuses no binding
InitWith(ns, ps, exs, qs) == InitState(ns, ps, exs, qs, {{}}, TRUE)

\* publish and listen calls made at any time on one instance, with the
\* default prefetch and a broker holding nothing yet
Init == InitWith({1, MaxN}, {DefaultPrefetch}, {{}}, {{}})

\* the publish calls in progress
InFlight == {d \in Calls : pc[d] \notin {"idle", "done", "threw"}}

\* a caller that keeps at most MaxInFlight publish calls unawaited
ConcurrentPublishCall(c, t) ==
  Cardinality(InFlight) < MaxInFlight /\ PublishCall(c, t, "given")

Next ==
  \/ \E c \in Calls, t \in Topics : ConcurrentPublishCall(c, t)
  \/ \E c \in Calls : AssignChannel(c)
  \/ \E c \in Calls : ChannelReady(c)
  \/ \E c \in Calls : SelectShard(c)
  \/ \E c \in Calls, ok \in BOOLEAN : PublishSettle(c, ok)
  \/ \E l \in Listens, t \in Topics : ListenCall(l, t, "given")
  \/ \E ch \in Chans : SetupRun(ch)
  \/ \E ch \in Chans : SetupStep(ch)

Spec == Init /\ [][Next]_vars

\* a caller that awaits each publish before it makes the next
AwaitedPublishCall(c, t) == InFlight = {} /\ PublishCall(c, t, "given")

NextAwaited ==
  \/ \E c \in Calls, t \in Topics : AwaitedPublishCall(c, t)
  \/ \E c \in Calls : AssignChannel(c)
  \/ \E c \in Calls : ChannelReady(c)
  \/ \E c \in Calls : SelectShard(c)
  \/ \E c \in Calls, ok \in BOOLEAN : PublishSettle(c, ok)
  \/ \E ch \in Chans : SetupRun(ch)
  \/ \E ch \in Chans : SetupStep(ch)

SpecAwaited == Init /\ [][NextAwaited]_vars

\* a caller that makes its publish calls back to back, in one synchronous
\* stretch: each call is made before any earlier one has resumed from its
\* first await
BackToBackPublishCall(c, t) ==
  /\ \A d \in Calls : pc[d] \in {"idle", "created"}
  /\ PublishCall(c, t, "given")

NextBackToBack ==
  \/ \E c \in Calls, t \in Topics : BackToBackPublishCall(c, t)
  \/ \E c \in Calls : AssignChannel(c)
  \/ \E c \in Calls : ChannelReady(c)
  \/ \E c \in Calls : SelectShard(c)
  \/ \E c \in Calls, ok \in BOOLEAN : PublishSettle(c, ok)
  \/ \E ch \in Chans : SetupRun(ch)
  \/ \E ch \in Chans : SetupStep(ch)

SpecBackToBack == Init /\ [][NextBackToBack]_vars

\* a consumer: listen, the channel setup and its re-runs, deliveries and
\* the handler's use of the envelopes
InitConsumer == InitWith({1, MaxN}, {1, MaxPrefetch}, {{}}, {{}})

NextConsumer ==
  \/ \E l \in Listens, t \in Topics : ListenCall(l, t, "given")
  \/ \E ch \in Chans : SetupRun(ch)
  \/ \E ch \in Chans : Reconnect(ch)
  \/ \E ch \in Chans : SetupStep(ch)
  \/ \E m \in Msgs, ch \in Chans, q \in Labels : Deliver(m, ch, q)
  \/ \E h \in {"return", "ack", "nack", "throw", "suspend"} : InvokeProcessor(h)
  \/ \E m \in Msgs, h \in {"return", "ack", "nack"} : HandlerResume(m, h)
  \/ \E m \in Msgs : Ack(m)
  \/ \E m \in Msgs : Nack(m)
  \/ Cancel

SpecConsumer == InitConsumer /\ [][NextConsumer]_vars

\* topology provisioning against a broker that may already hold any of the
\* exchanges and shard queues under other properties
InitTopology == InitWith({1, MaxN}, {DefaultPrefetch}, SUBSET Topics, SUBSET ShardLabels)

NextTopology ==
  \/ \E l \in Listens, t \in Topics : ListenCall(l, t, "given")
  \/ \E ch \in Chans : SetupRun(ch)
  \/ \E ch \in Chans : Reconnect(ch)
  \/ \E ch \in Chans : SetupStep(ch)

SpecTopology == InitTopology /\ [][NextTopology]_vars

\* provisioning of the shard queues against a broker that, for any subset of
\* the shards, refuses the queue assertion or refuses the binding
InitShardFaults ==
  /\ InitState({1, MaxN}, {DefaultPrefetch}, {{}}, SUBSET ShardLabels,
               SUBSET ShardLabels, TRUE)
  /\ \A q \in refusedBinds : queues[q] = "none"

SpecShardFaults == InitShardFaults /\ [][NextTopology]_vars

\* the life of an instance from before its construction: the constructor,
\* connect() and the connection's events, and publish and listen calls made
\* with or without their arguments, before or after connect()
InitConnect == InitState({1, MaxN}, {DefaultPrefetch}, {{}}, {{}}, {{}}, FALSE)

NextConnect ==
  \/ \E host \in Args, prom \in BOOLEAN : Construct(host, prom)
  \/ \E k \in Conns : ConnectCall(k)
  \/ \E k \in Conns : ConnectRegister(k)
  \/ \E k \in Conns, ev \in {"connect", "disconnect"} : ConnEvent(k, ev)
  \/ \E c \in Calls, t \in Topics \cup {Missing}, b \in Args : PublishCall(c, t, b)
  \/ \E l \in Listens, t \in Topics \cup {Missing}, p \in Args : ListenCall(l, t, p)

SpecConnect == InitConnect /\ [][NextConnect]_vars

\* Storage.new calls made at any time, over an empty media table
InitStorage == InitWith({MaxN}, {DefaultPrefetch}, {{}}, {{}})

NextStorage ==
  \/ \E c \in News, p \in Pairs, ig \in BOOLEAN : NewCall(c, p, ig)
  \/ \E c \in News : FindReply(c)
  \/ \E c \in News : NewDecide(c)
  \/ \E c \in News : InsertReply(c)
  \/ \E i \in 1..MaxNews : UpdateStatus(i)

SpecStorage == InitStorage /\ [][NextStorage]_vars

\* a Telemetry object from before its construction: the constructor,
\* connect(), the publisher's connection, and emitStatus or emitProgress
\* calls made at any time with or without their arguments
InitTelemetry ==
  InitState({FixedConsumerQueues}, {DefaultPrefetch}, {{}}, {{}}, {{}}, FALSE)

NextTelemetry ==
  \/ \E host \in Args : NewTelemetry(host)
  \/ LoadProto
  \/ \E k \in Conns : TelemetryConnect(k)
  \/ \E k \in Conns : ConnectRegister(k)
  \/ \E k \in Conns, ev \in {"connect", "disconnect"} : ConnEvent(k, ev)
  \/ \E e \in Emits, k \in {"emitStatus", "emitProgress"}, mid \in MediaArgs,
         st \in StatusArgs, pr \in ProgressArgs : EmitCall(e, k, mid, st, pr)
  \/ \E c \in Calls : AssignChannel(c)
  \/ \E c \in Calls : ChannelReady(c)
  \/ \E c \in Calls : SelectShard(c)
  \/ \E c \in Calls, ok \in BOOLEAN : PublishSettle(c, ok)
  \/ \E ch \in Chans : ConnectedSetupRun(ch)
  \/ \E ch \in Chans : SetupStep(ch)
  \/ \E e \in Emits : EmitReturn(e)

SpecTelemetry == InitTelemetry /\ [][NextTelemetry]_vars

\* one getObjects call and a listing stream that emits its data, end and
\* error events in any order
InitListing == InitWith({MaxN}, {DefaultPrefetch}, {{}}, {{}})

NextListing ==
  \/ \E p \in PrefixArgs : GetObjects(p)
  \/ \E n \in ObjNames : OnData(n)
  \/ OnEnd
  \/ OnError

SpecListing == InitListing /\ [][NextListing]_vars

(* ------------------------------ claims --------------------------------- *)

\* the routing key indices of the channel.publish requests for topic t, in order
IndicesUsed(t) ==
  LET reqs == SelectSeq(sent, LAMBDA r : r.exchange = t)
  IN [i \in 1..Len(reqs) |-> reqs[i].rk]

\* the channel.publish request publish call c made
RequestOf(c) == CHOOSE r \in {sent[i] : i \in 1..Len(sent)} : r.call = c

\* publish call c starts in this step
PublishStarts(c) == pc[c] = "idle" /\ pc'[c] # "idle"
\* listen call l starts in this step
ListenStarts(l) == lpc[l] = "idle" /\ lpc'[l] # "idle"
\* the channel.publish of call c settles in this step
Settles(c) == pc[c] = "publishing" /\ pc'[c] # "publishing"

\* C1: awaited publish calls to a topic use the shard indices 0, 1, ..., N-1,
\* 0, ... in that order: the i-th request (from 0) for a topic carries index
\* i mod N, so N+1 of them on a fresh topic use 0, 1, ..., N-1, 0.
C1_AwaitedRoundRobin ==
  \A t \in Topics : \A i \in 1..Len(IndicesUsed(t)) :
    IndicesUsed(t)[i] = (i - 1) % N

\* C1 witness: N = 2 and three awaited publishes to one topic have completed,
\* the last of them on index 0 again
C1_Witness ==
  /\ N = 2
  /\ \A c \in 1..3 : pc[c] = "done"
  /\ IndicesUsed("a") = <<0, 1, 0>>

\* C2: every index stored in _topicState lies in [0, N), whatever publish
\* calls, successful or failed, have been interleaved.
C2_IndexInRange ==
  \A t \in Topics : topicState[t] # Undefined => topicState[t] \in 0..(N - 1)

\* C2 witness: N = 2, a failed publish has wrapped a topic's index back to 0
\* while another publish of the same topic is still in flight
C2_Witness ==
  /\ N = 2
  /\ \E c, d \in Calls :
       /\ pc[c] = "done" /\ ~cok[c] /\ rkIndex[c] = 1 /\ ctopic[c] = "a"
       /\ pc[d] = "publishing" /\ ctopic[d] = "a"
  /\ topicState["a"] = 0

\* C3: once publish has been called the instance counts as a Publisher: a
\* listen call made after that is refused with the mode-violation error and
\* creates no channel and no subscription.
C3_ListenAfterPublishRefused ==
  [][\A l \in Listens :
       (ListenStarts(l) /\ \E c \in Calls : pc[c] # "idle")
         => /\ lpc'[l] = "threw"
            /\ nchan' = nchan
            /\ subs' = subs]_vars

\* C4: a publish call made after listen was called is refused at once: no
\* channel is created, nothing is published, no metric changes and the topic
\* shard state is left alone.
C4_PublishAfterListenRefused ==
  [][\A c \in Calls :
       (PublishStarts(c) /\ \E l \in Listens : lpc[l] # "idle")
         => /\ pc'[c] = "threw"
            /\ nchan' = nchan
            /\ sent' = sent
            /\ published' = published /\ errored' = errored
            /\ topicState' = topicState]_vars

\* C5: the mode becomes Publisher on the first publish call and Consumer on
\* the first listen call, and once set it never changes.
C5_ModeSetOnce ==
  [][/\ \A c \in Calls : (mode = "unset" /\ PublishStarts(c)) => mode' = "publisher"
     /\ \A l \in Listens : (mode = "unset" /\ ListenStarts(l)) => mode' = "consumer"
     /\ mode # "unset" => mode' = mode]_vars

\* C6: when channel.publish resolves, messages_published for the label pair
\* (queue = routing key used, exchange = topic) goes up by exactly 1 and
\* messages_published_errored is unchanged for every label pair.
C6_SuccessCounts ==
  [][\A c \in Calls :
       (Settles(c) /\ cok'[c])
         => /\ published' = Inc(published, <<RequestOf(c).exchange, RequestOf(c).rk>>)
            /\ errored' = errored]_vars

\* C6 witness: a publish on shard 1 has succeeded, counted once, no error counted
C6_Witness ==
  /\ \E c \in Calls : pc[c] = "done" /\ cok[c] /\ ctopic[c] = "b" /\ rkIndex[c] = 1
  /\ published[<<"b", 1>>] = 1
  /\ \A l \in Labels : errored[l] = 0

\* C7: when channel.publish rejects, messages_published_errored for the label
\* pair goes up by exactly 1, the stored index of the topic advances to the
\* index after the one used (N-1 wraps to 0), and the call completes
\* normally.
C7_FailureCounts ==
  [][\A c \in Calls :
       (Settles(c) /\ ~cok'[c])
         => /\ errored' = Inc(errored, <<RequestOf(c).exchange, RequestOf(c).rk>>)
            /\ topicState'[ctopic[c]] = (RequestOf(c).rk + 1) % N
            /\ pc'[c] = "done"]_vars

\* C7 witness: a failed publish on shard 0 of a two-shard topic: counted as
\* an error, index advanced to 1, call completed
C7_Witness ==
  /\ N = 2
  /\ \E c \in Calls : pc[c] = "done" /\ ~cok[c] /\ ctopic[c] = "a" /\ rkIndex[c] = 0
  /\ errored[<<"a", 0>>] = 1
  /\ topicState["a"] = 1

\* C8: messages_published counts the successful publishes only: for every
\* label pair it equals the number of completed publish calls on that pair
\* whose channel.publish resolved.
C8_PublishedCountsSuccesses ==
  \A l \in Labels :
    published[l] = Cardinality({c \in Calls : /\ pc[c] = "done" /\ cok[c]
                                              /\ <<ctopic[c], rkIndex[c]>> = l})

\* C9: a delivery raises messages_consumed and messages_unacked_ram of its
\* label pair by 1 before the handler is invoked (the handler runs only on a
\* message already counted); every ack lowers the gauge of that pair by 1
\* and acks the message to the broker, every nack lowers it by 1 and nacks.
C9_DeliveryAccounting ==
  [][\A m \in Msgs :
       /\ (msgState[m] = "queued" /\ msgState'[m] # "queued")
            => /\ msgState'[m] = "counted"
               /\ consumed' = Inc(consumed, msgLabel'[m])
               /\ unacked' = Inc(unacked, msgLabel'[m])
       /\ (/\ msgState'[m] \in {"handled", "threw", "suspended"}
           /\ msgState[m] \notin {"handled", "threw", "suspended"})
            => /\ msgState[m] = "counted"
               /\ consumed[msgLabel[m]] >= 1
       /\ acks'[m] # acks[m]
            => /\ acks'[m] = acks[m] + 1 /\ nacks' = nacks
               /\ unacked' = Dec(unacked, msgLabel[m])
       /\ nacks'[m] # nacks[m]
            => /\ nacks'[m] = nacks[m] + 1 /\ acks' = acks
               /\ unacked' = Dec(unacked, msgLabel[m])]_vars

\* C9 witness: two deliveries counted, one acknowledged and one rejected, the
\* gauge back at 0
C9_Witness ==
  /\ \E m, k \in Msgs :
       /\ acks[m] = 1 /\ nacks[m] = 0 /\ nacks[k] = 1 /\ acks[k] = 0
       /\ msgLabel[m] = msgLabel[k]
       /\ consumed[msgLabel[m]] = 2
       /\ unacked[msgLabel[m]] = 0

\* the broker holds the whole topology of topic t: its direct exchange, its
\* N shard queues, each bound
Provisioned(t) ==
  /\ exchanges[t] = "direct"
  /\ \A i \in 0..(N - 1) : queues[<<t, i>>] = "ok" /\ <<t, i>> \in bindings

\* the queues and bindings of topic t that provisioning made
MadeFor(t) ==
  {q \in Labels : q[1] = t /\ (queues[q] = "ok" \/ q \in bindings)}

\* channel ch's setup completes a request in this step
Provisions(ch) == setupPos'[ch] = setupPos[ch] + 1

\* C10: provisioning is idempotent. A run that raised no error leaves the
\* broker with the topic's exchange and exactly its N bound shard queues; and
\* on a broker that holds that topology every further provisioning request
\* for the topic changes nothing on the broker and raises no error.
C10_ProvisioningIdempotent ==
  [][\A ch \in Chans :
       /\ (SetupFinished(ch)' /\ setupErrs'[ch] = 0 /\ setupState'[ch] = "resolved")
            => /\ Provisioned(chTopic[ch])'
               /\ MadeFor(chTopic[ch])' = {<<chTopic[ch], i>> : i \in 0..(N - 1)}
       /\ (Provisions(ch) /\ Provisioned(chTopic[ch]))
            => /\ exchanges' = exchanges /\ queues' = queues /\ bindings' = bindings
               /\ setupErrs'[ch] = setupErrs[ch]
               /\ setupState'[ch] # "rejected"]_vars

\* C10 witness: the setup of a two-shard topic has run twice to the end
\* without an error
C10_Witness ==
  /\ N = 2
  /\ \E ch \in Chans :
       /\ runs[ch] = 2 /\ SetupFinished(ch) /\ setupErrs[ch] = 0
       /\ Provisioned(chTopic[ch])
       /\ subs[ch] = {<<chTopic[ch], 0>>, <<chTopic[ch], 1>>}

\* the publish calls whose channel.publish has settled with routing key k
SettledWith(k) == {c \in Calls : pc[c] = "done" /\ RequestOf(c).key = k}

\* C11: every channel.publish request goes to the exchange named by the
\* call's topic, with the routing key "<topic>-<index>" of the shard index
\* the call selected, and the metrics of that publish are counted under the
\* label pair whose queue is that same "<topic>-<index>".
C11_RoutingKeyAndLabels ==
  /\ \A i \in 1..Len(sent) :
       /\ sent[i].exchange = ctopic[sent[i].call]
       /\ sent[i].key = <<ctopic[sent[i].call], rkIndex[sent[i].call]>>
  /\ \A k \in Labels :
       /\ published[k] = Cardinality(SettledWith(k))
       /\ errored[k] = Cardinality({c \in SettledWith(k) : ~cok[c]})

\* C11 witness: N = 2 and three publishes to topic "a", one after the other,
\* went out with the routing keys a-0, a-1, a-0 and were counted under them
C11_Witness ==
  /\ N = 2
  /\ Len(sent) = 3
  /\ [i \in 1..3 |-> sent[i].key] = <<<<"a", 0>>, <<"a", 1>>, <<"a", 0>>>>
  /\ \A i \in 1..3 : sent[i].exchange = "a"
  /\ published[<<"a", 0>>] = 2 /\ published[<<"a", 1>>] = 1
\* the constructor runs in this step
Constructs == inst = "none" /\ inst' # "none"

\* C12: a constructor call without a host throws at once, before any
\* connection is made; a publish call without a topic or a body, and a
\* listen call without a topic or a handler, throw the configuration error
\* before any channel is created and before any request is sent.
C12_MissingParameterThrowsFirst ==
  [][/\ (Constructs /\ chost' = Missing)
          => inst' = "threw" /\ UNCHANGED <<connVars, chanVars, sent, brokerVars>>
     /\ \A c \in Calls :
          (PublishStarts(c) /\ (ctopic'[c] = Missing \/ cbody'[c] = Missing))
            => /\ pc'[c] = "threw" /\ cerr'[c] = "config"
               /\ UNCHANGED <<connVars, chanVars, sent, brokerVars, pubMetrics,
                              topicState, pchannel>>
     /\ \A l \in Listens :
          (ListenStarts(l) /\ (ltopic'[l] = Missing \/ lproc'[l] = Missing))
            => /\ lpc'[l] = "threw" /\ lerr'[l] = "config"
               /\ UNCHANGED <<connVars, chanVars, sent, brokerVars, consVars>>]_vars

\* C12 witness: on a connected instance a publish call without a topic and a
\* listen call without a handler have both thrown the configuration error,
\* and no channel exists
C12_Witness ==
  /\ connObj # Null
  /\ \E c \in Calls : ctopic[c] = Missing /\ cerr[c] = "config"
  /\ \E l \in Listens : ltopic[l] # Missing /\ lproc[l] = Missing /\ lerr[l] = "config"
  /\ nchan = 0
\* C13: once connect() has registered its handlers, the rabbitmq_up gauge
\* shows the last connection event: 1 after a connect event, 0 after a
\* disconnect event, however many drops and reconnects there were; with one
\* connection it is 1 exactly while that connection is up.
C13_UpFollowsConnection ==
  /\ lastSeen = "connect" => up = 1
  /\ lastSeen = "disconnect" => up = 0
  /\ nconn = 1 => (up = 1 <=> connStatus[1] = "up")

\* C13 witness: the connection came up, dropped and came up again, and the
\* gauge is back at 1
C13_Witness ==
  /\ nevents >= 3
  /\ lastSeen = "connect"
  /\ up = 1
  /\ inst = "ready"
  /\ \E k \in Conns : connReg[k] /\ connStatus[k] = "up"

\* C14: the promise of connect() is resolved only once the connection has
\* emitted a connect event; while it has emitted none, whatever disconnect
\* events there were, the promise is pending: not resolved and not rejected.
C14_ConnectResolvesOnConnect ==
  \A k \in Conns :
    /\ connPromise[k] = "resolved" => everUp[k]
    /\ (connStatus[k] # "none" /\ ~everUp[k]) => connPromise[k] = "pending"
    /\ connPromise[k] # "rejected"

\* C14 witness: a connection that has emitted two disconnect events and no
\* connect event, with the promise of its connect() still pending
C14_Witness ==
  \E k \in Conns :
    /\ connStatus[k] = "down" /\ ~everUp[k]
    /\ nevents >= 2
    /\ connPromise[k] = "pending"
\* the queue and bind requests a run of _ensureConsumerQueues issues
ShardRequests == {<<op, j>> : op \in {"queue", "bind"}, j \in ShardIndices}

\* C15: a refused queue assertion or a refused bind for one shard does not
\* end _ensureConsumerQueues: the routine never throws, so the setup that
\* awaits it is not rejected by it, and when it has completed the assertion
\* and the bind of every shard were attempted, whichever shards failed.
C15_ShardFailuresIsolated ==
  \A ch \in Chans :
    chKind[ch] = "listen" =>
      /\ setupState[ch] = "rejected" => attempted[ch] \cap ShardRequests = {}
      /\ setupState[ch] = "resolved" => ShardRequests \subseteq attempted[ch]
      /\ (setupState[ch] = "running" /\ setupPos[ch] > 0)
           => \A j \in ShardIndices :
                2 * j + 2 < setupPos[ch] => {<<"queue", j>>, <<"bind", j>>} \subseteq attempted[ch]

\* C15 witness: N = 2, the queue assertion of shard 0 was refused and the
\* bind of shard 1 was refused; the setup went through both shards and on to
\* the subscriptions
C15_Witness ==
  \E ch \in Chans :
    /\ N = 2 /\ chKind[ch] = "listen" /\ setupState[ch] = "resolved"
    /\ queues[<<chTopic[ch], 0>>] = "other"
    /\ <<chTopic[ch], 1>> \in refusedBinds
    /\ queues[<<chTopic[ch], 1>>] = "ok"
    /\ setupErrs[ch] = 2
    /\ <<"bind", 1>> \in attempted[ch]
\* C16: a refused exchange assertion does not fail listen's channel setup:
\* the setup is not rejected, and it goes on to the shard queues, the
\* prefetch and the subscriptions.
C16_ExchangeFailureNotFatal ==
  \A ch \in Chans :
    (chKind[ch] = "listen" /\ <<"exchange", 0>> \in attempted[ch]
       /\ exchanges[chTopic[ch]] = "other")
      => setupState[ch] # "rejected"

\* the channels created for publishing
PublishChannels == {ch \in Chans : chKind[ch] = "pub"}

\* C17: connection.createChannel is called for publishing at most once per
\* instance, also when publish calls overlap, and every channel.publish
\* request goes out on that one channel.
C17_OnePublishChannel ==
  /\ Cardinality(PublishChannels) <= 1
  /\ \A i \in 1..Len(sent) : sent[i].chan \in PublishChannels /\ sent[i].chan = pchannel

\* the publish calls to topic t made before call c
EarlierCalls(c, t) == {d \in Calls : d < c /\ ctopic[d] = t}

\* C18: shard indices follow call order: the request of the i-th publish
\* call to a topic (from 0) carries index i mod N, also when the calls were
\* made without awaiting one another and whatever order they complete in.
C18_CallOrderIndices ==
  \A i \in 1..Len(sent) :
    sent[i].rk = Cardinality(EarlierCalls(sent[i].call, sent[i].exchange)) % N

\* C19: a publish or listen call is rejected only with the configuration
\* error (missing parameter) or the mode-violation error; no failure of
\* channel creation, channel connection, topology setup or channel.publish
\* reaches the caller.
C19_OnlyConfigAndModeErrors ==
  /\ \A c \in Calls : cerr[c] \in {"none", "config", "mode"}
  /\ \A l \in Listens : lerr[l] \in {"none", "config", "mode"}

\* C20: the promise of a listen call that passed the mode check is never
\* resolved while its subscription runs: no state has the call returned and
\* its channel consuming.
C20_ListenNeverResolves ==
  \A l \in Listens : lpc[l] = "returned" => subs[lchan[l]] = {}
\* cancel() is called in this step
Cancels == ncancel' = ncancel + 1

\* C21: cancel() does nothing on an instance that is Unset or a Publisher;
\* on a Consumer, that is once listen has been called and has passed its
\* mode check, it requests one cancellation of the consumption.
C21_CancelOnlyAsConsumer ==
  [][Cancels =>
       IF \E l \in Listens : lpc[l] = "returned"
         THEN cancelReq' = cancelReq + 1
         ELSE cancelReq' = cancelReq]_vars
\* the handler throws for message m in this step
HandlerThrows(m) == msgState[m] = "counted" /\ msgState'[m] = "threw"

\* C22: when the handler throws for a delivered message the consume callback
\* catches it and returns normally: nothing reaches the channel, whose setup
\* state and subscriptions stay as they are; no ack and no nack is sent for
\* the message, then or later; the unacked gauge keeps its increment; and
\* deliveries on every shard queue go on to the handler.
C22_HandlerThrowContained ==
  [][/\ \A m \in Msgs :
          HandlerThrows(m)
            => /\ cb' = 0
               /\ acks' = acks /\ nacks' = nacks
               /\ unacked' = unacked
               /\ subs' = subs /\ prefetchSet' = prefetchSet
               /\ UNCHANGED chanVars
     /\ \A m \in Msgs : msgState'[m] = "threw" => acks'[m] + nacks'[m] = 0]_vars

\* C22 witness: N = 2, the handler threw for a message of shard queue 0, and
\* the next message, of shard queue 1, was handed to the handler and acked
C22_Witness ==
  \E m, k \in Msgs :
    /\ N = 2 /\ m < k
    /\ msgState[m] = "threw" /\ msgLabel[m][2] = 0
    /\ unacked[msgLabel[m]] = 1
    /\ msgState[k] = "handled" /\ msgLabel[k][2] = 1 /\ acks[k] = 1
    /\ msgChan[m] = msgChan[k]
\* the handler invocation for message m has started and has not run to its end
HandlerInProgress(m) == cb = m \/ msgState[m] = "suspended"

\* C23: on one listen channel the handler runs to its end for one message,
\* awaits included, before it is invoked for the next: no two handler
\* invocations of one channel are in progress at once.
C23_HandlersSerialised ==
  \A m, k \in Msgs :
    (m # k /\ HandlerInProgress(m) /\ HandlerInProgress(k))
      => msgChan[m] # msgChan[k]
\* C24: before a message for a topic is handed to channel.publish, the
\* provisioning of that topic has run and completed: its exchange exists and
\* its N shard queues exist and are bound; for every topic the instance
\* publishes to, not only the first.
C24_ProvisionedBeforePublish ==
  \A i \in 1..Len(sent) : Provisioned(sent[i].exchange)
\* C25: the media table never holds two rows with the same (metadata,
\* metadata_id) pair, whatever new() calls were made; a call for a pair that
\* exists throws and inserts nothing when ignoreExisting is false, and when it
\* is true sets the existing row back to QUEUED instead of inserting.
C25_NoDuplicateMedia ==
  /\ \A p \in Pairs : Cardinality(RowsOf(p)) <= 1
  /\ \A c \in News :
       (npc[c] \in {"inserting", "done"} /\ nfound[c] # Null)
         => /\ npc[c] = "done"
            /\ \A i \in RowsOf(npair[c]) : media[i].id = nfound[c]
\* the publish calls to topic t that have completed
Completed(t) == {c \in Calls : pc[c] = "done" /\ ctopic[c] = t}
\* the publish calls to topic t that have read the index and not yet written it
Publishing(t) == {c \in Calls : pc[c] = "publishing" /\ ctopic[c] = t}

\* C26: every publish advances its topic's counter by one step and no
\* update is lost: once k publish calls to a topic have completed, and none
\* is in the middle of its update, the stored index is k mod N, whatever the
\* interleaving of the calls.
C26_NoLostAdvance ==
  \A t \in Topics :
    (Completed(t) # {} /\ Publishing(t) = {})
      => topicState[t] = Cardinality(Completed(t)) % N
\* C27: a run of listen's channel setup that gets through provisioning sets
\* the channel's prefetch to the configured value and registers one consumer
\* for each of the queues topic-0 .. topic-(N-1) and for no other queue; the
\* consumers are registered only once the exchange and every shard queue and
\* binding have been dealt with, and until then the run has none.
C27_SubscriptionsAfterProvisioning ==
  \A ch \in Chans :
    /\ (chKind[ch] = "listen" /\ setupState[ch] = "resolved")
         => /\ prefetchSet[ch] = prefetch
            /\ subs[ch] = {<<chTopic[ch], i>> : i \in 0..(N - 1)}
            /\ <<"exchange", 0>> \in attempted[ch]
            /\ \A i \in 0..(N - 1) :
                 {<<"queue", i>>, <<"bind", i>>} \subseteq attempted[ch]
    /\ ~(chKind[ch] = "listen" /\ setupState[ch] = "resolved")
         => subs[ch] = {} /\ prefetchSet[ch] = 0

\* C27 witness: N = 2, the second run of a listen channel's setup has
\* registered the consumers of both shard queues under the default prefetch
C27_Witness ==
  \E ch \in Chans :
    /\ N = 2 /\ chKind[ch] = "listen" /\ runs[ch] = 2
    /\ setupState[ch] = "resolved"
    /\ Cardinality(subs[ch]) = 2
    /\ prefetchSet[ch] = DefaultPrefetch
\* the unacked gauge summed over the label pairs topic-0 .. topic-(n-1)
RECURSIVE GaugeSum(_, _)
GaugeSum(t, n) == IF n = 0 THEN 0 ELSE unacked[<<t, n - 1>>] + GaugeSum(t, n - 1)

\* C28: on a listen channel the deliveries that were handed to the handler
\* and are neither acknowledged nor rejected never number more than the
\* configured prefetch, over all its shard queues together, and neither does
\* the unacked gauge summed over the channel's label pairs.
C28_PrefetchBoundsUnacked ==
  \A ch \in Chans :
    (chKind[ch] = "listen" /\ prefetchSet[ch] # 0)
      => /\ Cardinality(Outstanding(ch)) <= prefetch
         /\ GaugeSum(chTopic[ch], N) <= prefetch
\* the messages delivered on queue q
DeliveredOn(q) == {m \in Msgs : msgState[m] # "queued" /\ msgLabel[m] = q}

\* the ack and nack calls made for the messages 1..n delivered on queue q
RECURSIVE TermCalls(_, _)
TermCalls(q, n) ==
  IF n = 0 THEN 0
  ELSE (IF n \in DeliveredOn(q) THEN terms[n] ELSE 0) + TermCalls(q, n - 1)

\* C29: the unacked gauge of a label pair is the number of messages
\* delivered on its queue minus the number of ack and nack calls made for
\* them. While no envelope was terminated more than once that is the number
\* delivered and not yet acknowledged or rejected, and not negative; a second
\* ack or nack for a message lowers the gauge once more, below that number.
C29_GaugeCountsTerminations ==
  \A q \in Labels :
    /\ unacked[q] = Cardinality(DeliveredOn(q)) - TermCalls(q, MaxMsgs)
    /\ (\A m \in Msgs : terms[m] <= 1)
         => /\ unacked[q] = Cardinality({m \in DeliveredOn(q) : terms[m] = 0})
            /\ unacked[q] >= 0
    /\ (\E m \in DeliveredOn(q) : terms[m] > 1)
         => unacked[q] < Cardinality({m \in DeliveredOn(q) : terms[m] = 0})

\* C29 witness: one message was delivered and acknowledged twice, and the
\* gauge of its label pair stands at -1
C29_Witness ==
  \E m \in Msgs :
    /\ acks[m] = 2 /\ terms[m] = 2
    /\ DeliveredOn(msgLabel[m]) = {m}
    /\ unacked[msgLabel[m]] = -1
\* publish call c takes a step
Advances(c) == pc'[c] # pc[c]

\* C30: the shard counters of different topics are independent: a step of a
\* publish to one topic, whether its channel.publish resolves or rejects,
\* leaves the stored index of every other topic as it was, an absent entry
\* staying absent.
C30_TopicsIndependent ==
  [][\A c \in Calls : \A t \in Topics :
       (Advances(c) /\ ctopic'[c] # t) => topicState'[t] = topicState[t]]_vars

\* C30 witness: N = 2; two publishes to topic "a", one of them failed, and
\* one to topic "b" have completed; "a" is back at index 0 and "b" is at 1
C30_Witness ==
  /\ N = 2
  /\ \A c \in 1..3 : pc[c] = "done"
  /\ \E c \in 1..3 : ~cok[c] /\ ctopic[c] = "a"
  /\ Cardinality({c \in 1..3 : ctopic[c] = "a"}) = 2
  /\ topicState = [t \in Topics |-> IF t = "a" THEN 0 ELSE 1]

ArgsGiven(e) == ~EmitArgMissing(emethod[e], eargs[e][1], eargs[e][2], eargs[e][3])

\* the channel.publish requests made for emit call e
SentFor(e) == {i \in 1..Len(sent) : sent[i].call = ecall[e]}

\* C32: emitStatus and emitProgress, given their required arguments, never
\* throw, and what they return is the payload they built, whether
\* proto.encode failed, the publish rejected, or both; when encoding failed,
\* no message is sent to the broker.
C32_EmitNeverThrows ==
  \A e \in Emits :
    (epc[e] # "idle" /\ ArgsGiven(e)) =>
      /\ epc[e] # "threw"
      /\ epc[e] = "returned" =>
           /\ eret[e] = epayload[e]
           /\ eret[e] = PayloadOf(e, emethod[e], eargs[e][1], eargs[e][2], eargs[e][3])
      /\ eenc[e] = "failed" =>
           /\ SentFor(e) = {}
           /\ pc[ecall[e]] = "threw"

\* C32 witness: two emitProgress calls have returned their payloads; the
\* first was encoded and its publish rejected for want of a connection, the
\* second was given a status that does not encode and sent nothing
C32_Witness ==
  /\ \A e \in 1..2 : epc[e] = "returned" /\ emethod[e] = "emitProgress"
  /\ eenc[1] = "ok" /\ cerr[ecall[1]] = "type"
  /\ eenc[2] = "failed" /\ cerr[ecall[2]] = "config"
  /\ eret[2].status = "1.5" /\ eret[1].id = 1
  /\ sent = <<>>

\* the kinds of the first i events of the stream
KindsBefore(i) == {gevents[j].kind : j \in 1..(i - 1)}

\* an 'end' has arrived with no earlier 'error'
CleanEnd == \E i \in 1..Len(gevents) :
              gevents[i].kind = "end" /\ "error" \notin KindsBefore(i)

\* an 'error' has arrived with no earlier 'end'
ErrorBeforeEnd == \E i \in 1..Len(gevents) :
                    gevents[i].kind = "error" /\ "end" \notin KindsBefore(i)

\* an 'error' has arrived
ErrorSeen == \E i \in 1..Len(gevents) : gevents[i].kind = "error"

\* the names the 'data' events carried, in order
Delivered ==
  LET d == SelectSeq(gevents, LAMBDA ev : ev.kind = "data")
  IN [i \in 1..Len(d) |-> d[i].name]

\* the named objects delivered whose directory is dir, in order
InDirectory(dir) == SelectSeq(Delivered, LAMBDA n : n # <<>> /\ DirOf(n) = dir)

====
